---- MODULE Spec2Model ----
(***************************************************************************)
(* Model of the Sportarr metadata agent for Plex                           *)
(* (agents/plex/Sportarr.bundle/Contents/Code/__init__.py):                *)
(* SportarrAgent.search, SportarrAgent.update and                          *)
(* SportarrAgent.update_episodes.                                          *)
(*                                                                         *)
(* JSON mappings are functions from key strings to values, so that         *)
(* dict.get(key, default) can tell an absent key from a present one.       *)
(* Titles handled by search are sequences of one-character strings so that *)
(* lower() is computed character by character.                             *)
(***************************************************************************)
EXTENDS Integers, Sequences, FiniteSets, TLC

VARIABLES
    pc,          \* position of the running call; "raised" when an
                 \* exception has left the entry point
    errors,      \* number of Log.Error calls of the running call
    requests,    \* URLs requested by the running call, in order
    \* ---- search ----
    show,        \* media.show
    mediaYear,   \* media.year (0: none)
    searchFetch, \* what JSON.ObjectFromURL(search_url) does: raise/null/ok
    response,    \* the search response (a mapping), when searchFetch = "ok"
    iter,        \* response['results'][:10], the list the loop enumerates
    idx,         \* enumerate index of the next result
    results,     \* the host's result list (MetadataSearchResult objects)
    \* ---- update: the remote service and the transport ----
    seriesShape, \* which series record the service holds
    seasonsShape,\* which seasons response the service gives
    fail,        \* what goes wrong: URLs whose fetch raises, dates that
                 \* do not parse, list entries that are not mappings,
                 \* episode responses without an episodes key
    \* ---- update: the host ----
    media,       \* media.seasons: season number -> known episode numbers
    metadata,    \* series-level fields of the metadata object
    seasons,     \* metadata.seasons: season number -> season object
    \* ---- update: locals ----
    series,      \* the fetched series record
    slist,       \* seasons_response['seasons']
    si,          \* position in slist of the season being processed
    elist,       \* episodes_response['episodes']
    ei,          \* position in elist of the episode being processed
    \* ---- update: history ----
    run,         \* number of the running update call
    snapshot,    \* host fields when the previous update call returned
    writes       \* host fields written by the running call, in order

searchVars == <<show, mediaYear, searchFetch, response, iter, idx, results>>
envVars == <<seriesShape, seasonsShape, fail>>
hostVars == <<media, metadata, seasons>>
localVars == <<series, slist, si, elist, ei>>
histVars == <<run, snapshot, writes>>
updateVars == <<seriesShape, seasonsShape, fail, media, metadata, seasons,
                series, slist, si, elist, ei, run, snapshot, writes>>
vars == <<pc, errors, requests,
          show, mediaYear, searchFetch, response, iter, idx, results,
          seriesShape, seasonsShape, fail, media, metadata, seasons,
          series, slist, si, elist, ei, run, snapshot, writes>>

----------------------------------------------------------------------------
(* Bounds *)
MaxResults == 11      \* longest search response enumerated
MaxFailures == 2      \* most failure points of one scenario
MaxRuns == 2          \* successive update calls on the same series

----------------------------------------------------------------------------
(* Python helpers *)

\* dict.get(key, default)
Get(m, k, d) == IF k \in DOMAIN m THEN m[k] ELSE d

\* seq[:n]
Take(s, n) == IF Len(s) <= n THEN s ELSE SubSeq(s, 1, n)

\* JSON null as the value of a title
Null == <<"null">>

\* str.lower() of one character
LowerChar(c) ==
    CASE c = "U" -> "u"
      [] c = "F" -> "f"
      [] c = "C" -> "c"
      [] c = "N" -> "n"
      [] OTHER -> c

\* str.lower()
Lower(s) == [i \in DOMAIN s |-> LowerChar(s[i])]

----------------------------------------------------------------------------
(* SportarrAgent.search *)

SPORTARR_API_URL == "https://sportarr.net"

SearchUrl(title, year) ==
    IF year # 0
      THEN <<SPORTARR_API_URL, "/api/metadata/plex/search?title=", title, "&year=", year>>
      ELSE <<SPORTARR_API_URL, "/api/metadata/plex/search?title=", title>>

SearchSliceAll(rs) == rs
\* the slice the loop enumerates
SearchSlice(rs) == Take(rs, 10)

SearchScoreNoBoost(i, title, query) == 100 - (i * 5)
\* score of the result at 0-based index i
SearchScore(i, title, query) ==
    IF Lower(title) = Lower(query) THEN 100 ELSE 100 - (i * 5)

ResultsAppendSorted(rs, c) ==
    LET n == Cardinality({i \in 1..Len(rs) : rs[i].score >= c.score})
    IN SubSeq(rs, 1, n) \o <<c>> \o SubSeq(rs, n + 1, Len(rs))
\* results.Append(MetadataSearchResult(...))
ResultsAppend(rs, c) == Append(rs, c)

\* where an exception raised inside search's try block goes
SearchHandlerNone == "raised"
SearchHandler == "search_except"

SearchAfterFetchKeyError(resp) ==
    IF "results" \in DOMAIN resp THEN "search_loop" ELSE SearchHandler
\* if 'results' in response (line 72): the loop, or the end of the try block
SearchAfterFetch(resp) ==
    IF "results" \in DOMAIN resp THEN "search_loop" ELSE "search_done"

\* lines 59-72: build the URL, fetch, test for the results key
SearchFetch ==
    /\ pc = "search"
    /\ requests' = Append(requests, SearchUrl(show, mediaYear))
    /\ IF searchFetch = "raise" \/ searchFetch = "null"
         \* ObjectFromURL raises, or 'results' in None raises TypeError
         THEN /\ pc' = SearchHandler
              /\ UNCHANGED iter
         ELSE /\ pc' = SearchAfterFetch(response)
              /\ iter' = IF "results" \in DOMAIN response
                            THEN SearchSlice(response["results"])
                            ELSE iter
    /\ UNCHANGED <<errors, show, mediaYear, searchFetch, response, idx, results>>
    /\ UNCHANGED updateVars

\* lines 73-90: one iteration of the enumerate loop
SearchLoop ==
    /\ pc = "search_loop"
    /\ IF idx >= Len(iter)
         THEN /\ pc' = "search_done"
              /\ UNCHANGED <<idx, results>>
         ELSE LET result == iter[idx + 1]
                  title == Get(result, "title", <<>>)
              IN IF title = Null
                   \* None.lower() raises AttributeError
                   THEN /\ pc' = SearchHandler
                        /\ UNCHANGED <<idx, results>>
                   ELSE /\ results' = ResultsAppend(results,
                                        [id |-> ToString(result["id"]),
                                         name |-> Get(result, "title", Null),
                                         year |-> Get(result, "year", 0),
                                         score |-> SearchScore(idx, title, show)])
                        /\ idx' = idx + 1
                        /\ pc' = "search_loop"
    /\ UNCHANGED <<errors, requests, show, mediaYear, searchFetch, response, iter>>
    /\ UNCHANGED updateVars

\* lines 92-93: except Exception: Log.Error
SearchExcept ==
    /\ pc = "search_except"
    /\ errors' = errors + 1
    /\ pc' = "search_done"
    /\ UNCHANGED requests
    /\ UNCHANGED searchVars
    /\ UNCHANGED updateVars

----------------------------------------------------------------------------
(* Search inputs *)

Query == <<"U", "f", "c">>
Filler == <<"N", "b", "a">>

\* titles placed at the distinguished positions of a response;
\* <<"absent">> stands for a result without a title key
AbsentTitle == <<"absent">>
SpecialTitles == {<<"U", "f", "c">>, <<"u", "F", "C">>, Null, AbsentTitle}

Result(i, t) ==
    IF t = AbsentTitle
      THEN [id |-> 100 + i, year |-> 2000 + i]
      ELSE [id |-> 100 + i, title |-> t, year |-> 2000 + i]

\* a response of k results: Filler everywhere but at positions p and q
ResultList(k, p, t, q, u) ==
    [i \in 1..k |-> IF i = p THEN Result(i, t)
                    ELSE IF i = q THEN Result(i, u)
                    ELSE Result(i, Filler)]

ResultLists ==
    {ResultList(k, 0, Filler, 0, Filler) : k \in 0..MaxResults}
    \cup
    UNION {
      UNION { {ResultList(k, p, t, 0, Filler) : t \in SpecialTitles}
              \cup
              UNION { {ResultList(k, p, t, q, u) :
                         t \in SpecialTitles, u \in SpecialTitles}
                      : q \in (p + 1)..k }
              : p \in 1..k }
      : k \in 1..MaxResults }

SearchResponses ==
    {[results |-> rs] : rs \in ResultLists} \cup {[error |-> "not found"]}

SearchInit ==
    /\ pc = "search"
    /\ errors = 0
    /\ requests = <<>>
    /\ show \in {Query, <<"N", "B", "A">>}
    /\ mediaYear \in {0, 2024}
    /\ searchFetch \in {"raise", "null", "ok"}
    /\ response \in SearchResponses
    /\ (searchFetch # "ok" => response = [error |-> "not found"])
    /\ iter = <<>>
    /\ idx = 0
    /\ results = <<>>
    /\ seriesShape = "null" /\ seasonsShape = "nokey" /\ fail = {}
    /\ media = <<>> /\ metadata = <<>> /\ seasons = <<>>
    /\ series = <<>> /\ slist = <<>> /\ si = 0 /\ elist = <<>> /\ ei = 0
    /\ run = 0 /\ snapshot = <<>> /\ writes = <<>>

SearchNext == SearchFetch \/ SearchLoop \/ SearchExcept

SearchSpec == SearchInit /\ [][SearchNext]_vars

----------------------------------------------------------------------------
(* Values of the host and of the remote service *)

\* Python None in a text field, and in a date field
PyNone == "None"
NoDate == [year |-> 0, month |-> 0, day |-> 0]

\* a JSON value that is not a mapping
JsonNull == [scalar |-> "null"]
IsMapping(v) == "scalar" \notin DOMAIN v

TruthyNotNone(v) == IsMapping(v)
\* truth value of a JSON mapping or null: None and {} are false
Truthy(v) == IsMapping(v) /\ DOMAIN v # {}

\* truth value of m.get(k) for a text value and for a number
HasStr(m, k) == k \in DOMAIN m /\ m[k] # ""
\* a test of presence in place of the truth test
HasIntPresent(m, k) == k \in DOMAIN m
HasInt(m, k) == k \in DOMAIN m /\ m[k] # 0

\* collection[key] = value
Put(coll, key, value) ==
    [x \in DOMAIN coll \cup {key} |-> IF x = key THEN value ELSE coll[x]]

Range(f) == {f[x] : x \in DOMAIN f}

\* the text "%Y-%m-%d" as its three fields, and Datetime.ParseDate of it
DateString(y, m, d) == <<y, m, d>>
ParseDate(str) == [year |-> str[1], month |-> str[2], day |-> str[3]]

\* HTTP.Request(url).content and Proxy.Media(content)
Content(url) == "bytes of " \o url
ProxyMedia(content) == <<"Proxy.Media", content>>

\* an image collection that forgets what it held before
AttachOnly(coll, url) == [x \in {url} |-> ProxyMedia(Content(url))]

\* collection[url] = Proxy.Media(HTTP.Request(url).content)
Attach(coll, url) == Put(coll, url, ProxyMedia(Content(url)))

MetadataId == "42"

SeriesUrl(id) == SPORTARR_API_URL \o "/api/metadata/plex/series/" \o id
SeasonsUrl(id) == SPORTARR_API_URL \o "/api/metadata/plex/series/" \o id \o "/seasons"
EpisodesUrl(id, n) ==
    SPORTARR_API_URL \o "/api/metadata/plex/series/" \o id
        \o "/season/" \o ToString(n) \o "/episodes"

\* failure points that are not URLs
SeriesDateKey == "date:series"
EpisodeDateKey(n, e) == "date:" \o ToString(n) \o ":" \o ToString(e)
SeasonEntryKey(i) == "entry:season:" \o ToString(i)
EpisodeEntryKey(n, j) == "entry:episode:" \o ToString(n) \o ":" \o ToString(j)
\* the episodes response of season n carries no episodes key
EpisodesNoKey(n) == "nokey:episodes:" \o ToString(n)

(* The remote catalogue *)
SeriesFull ==
    [id |-> 42, title |-> "Premier League", summary |-> "English football",
     year |-> 2024, studio |-> "Sportarr", content_rating |-> "TV-PG",
     genres |-> <<"Soccer", "Sports", "Soccer">>,
     poster_url |-> "http://img/poster.jpg",
     banner_url |-> "http://img/banner.jpg",
     fanart_url |-> "http://img/fanart.jpg"]

SeriesBare == [id |-> 42, year |-> 0]

\* a series record that carries no year at all
SeriesNoYear == [id |-> 42, title |-> "Premier League"]

RemoteSeries(shape) ==
    CASE shape = "null" -> JsonNull
      [] shape = "empty" -> <<>>
      [] shape = "bare" -> SeriesBare
      [] shape = "noyear" -> SeriesNoYear
      [] OTHER -> SeriesFull

\* season 3 is not known to the host
SeasonEntry(i) ==
    CASE i = 1 -> [season_number |-> 1, title |-> "2024 Season",
                   summary |-> "First", poster_url |-> "http://img/s1.jpg"]
      [] i = 2 -> [season_number |-> 3, title |-> "2026 Season",
                   summary |-> "Third", poster_url |-> "http://img/s3.jpg"]
      [] OTHER -> [season_number |-> 2, poster_url |-> "http://img/s2.jpg"]

NumSeasonEntries == 3

\* episode 7 of season 1 is not known to the host
EpisodeEntry(n, j) ==
    CASE n = 1 /\ j = 1 ->
           [episode_number |-> 1, title |-> "Main Card", summary |-> "Fights",
            air_date |-> DateString(2024, 5, 18), duration_minutes |-> 45,
            thumb_url |-> "http://img/s1e1.jpg"]
      [] n = 1 /\ j = 2 ->
           [episode_number |-> 7, title |-> "Ghost", summary |-> "Unknown",
            air_date |-> DateString(2024, 6, 1), duration_minutes |-> 30,
            thumb_url |-> "http://img/s1e7.jpg"]
      [] n = 1 /\ j = 3 ->
           [episode_number |-> 2, part_name |-> "pt1",
            thumb_url |-> "http://img/s1e2.jpg"]
      [] n = 2 /\ j = 2 ->
           [episode_number |-> 3, duration_minutes |-> 0]
      [] OTHER ->
           [episode_number |-> 1, title |-> "Prelims", part_name |-> "pt1",
            air_date |-> DateString(2025, 3, 9), duration_minutes |-> 90,
            thumb_url |-> "http://img/s" \o ToString(n) \o "e1.jpg"]

NumEpisodeEntries(n) == IF n = 1 THEN 3 ELSE IF n = 2 THEN 2 ELSE 1

\* the responses as the transport delivers them
RemoteSeasons(f) ==
    [i \in 1..NumSeasonEntries |->
        IF SeasonEntryKey(i) \in f THEN JsonNull ELSE SeasonEntry(i)]

RemoteEpisodes(n, f) ==
    [j \in 1..NumEpisodeEntries(n) |->
        IF EpisodeEntryKey(n, j) \in f THEN JsonNull ELSE EpisodeEntry(n, j)]

SeasonsResponse(shape, f) ==
    IF shape = "list" THEN [seasons |-> RemoteSeasons(f)]
                      ELSE [error |-> "none"]

EpisodesResponse(n, f) ==
    IF EpisodesNoKey(n) \in f
      THEN [error |-> "none"]
      ELSE [episodes |-> RemoteEpisodes(n, f)]

FailPoints ==
    {SeriesUrl(MetadataId), SeasonsUrl(MetadataId),
     EpisodesUrl(MetadataId, 1), EpisodesUrl(MetadataId, 2),
     "http://img/poster.jpg", "http://img/banner.jpg", "http://img/fanart.jpg",
     "http://img/s1.jpg", "http://img/s2.jpg",
     "http://img/s1e1.jpg", "http://img/s1e2.jpg", "http://img/s2e1.jpg",
     SeriesDateKey, EpisodeDateKey(1, 1), EpisodeDateKey(2, 1),
     SeasonEntryKey(1), SeasonEntryKey(2), SeasonEntryKey(3),
     EpisodeEntryKey(1, 1), EpisodeEntryKey(1, 2), EpisodeEntryKey(1, 3),
     EpisodeEntryKey(2, 1), EpisodeEntryKey(2, 2), EpisodesNoKey(2)}

RECURSIVE SubsetsUpTo(_, _)
SubsetsUpTo(S, n) ==
    IF n = 0 THEN {{}}
    ELSE LET prev == SubsetsUpTo(S, n - 1)
         IN prev \cup {T \cup {x} : T \in prev, x \in S}

(* The host before the first update *)
OldDate == [year |-> 1999, month |-> 12, day |-> 31]

\* the remote season list has no season 4
MediaInit ==
    [n \in {1, 2, 4} |-> IF n = 1 THEN {1, 2} ELSE IF n = 2 THEN {1, 3} ELSE {1}]

MetadataInit ==
    [title |-> "Old title", summary |-> "Old summary",
     originally_available_at |-> OldDate,
     studio |-> "Old studio", content_rating |-> "Old rating",
     genres |-> {"Legacy", "Soccer"},
     posters |-> Put(<<>>, "http://img/old.jpg", ProxyMedia("old bytes")),
     banners |-> <<>>,
     art |-> <<>>]

\* genre sets the host may hold before the first update
HostGenres == {{"Legacy", "Soccer"}, {"Legacy", "Sports", "Boxing"}}

BlankEpisode ==
    [title |-> PyNone, summary |-> PyNone, originally_available_at |-> NoDate,
     duration |-> 0, thumbs |-> <<>>]

BlankSeason ==
    [title |-> PyNone, summary |-> PyNone, posters |-> <<>>, episodes |-> <<>>]

SeasonsInit ==
    [n \in DOMAIN MediaInit |->
        [title |-> "Old season", summary |-> "Old season summary",
         posters |-> <<>>,
         episodes |-> [e \in MediaInit[n] |->
                         [title |-> "Old episode", summary |-> "Old episode summary",
                          originally_available_at |-> OldDate,
                          duration |-> 1000,
                          thumbs |-> <<>>]]]]

----------------------------------------------------------------------------
(* Access to the metadata object *)

\* metadata.seasons[n]: the host hands out a season object for any key
SeasonAt(ss, n) == IF n \in DOMAIN ss THEN ss[n] ELSE BlankSeason

\* metadata.seasons[n].episodes[e]
EpisodeAt(ss, n, e) ==
    LET eps == SeasonAt(ss, n).episodes
    IN IF e \in DOMAIN eps THEN eps[e] ELSE BlankEpisode

\* metadata.seasons[n] after an assignment that makes it the object season
WithSeason(ss, n, season) == Put(ss, n, season)

\* metadata.seasons[n].episodes[e] after an assignment
WithEpisode(ss, n, e, episode) ==
    LET season == SeasonAt(ss, n)
    IN Put(ss, n, [season EXCEPT !.episodes = Put(season.episodes, e, episode)])

\* one entry of the write history
W(kind, n, e, field) == [kind |-> kind, season |-> n, episode |-> e, field |-> field]

----------------------------------------------------------------------------
(* SportarrAgent.update *)

\* where an exception raised inside update's try block goes
\* a handler that, for a failed series fetch, goes on with the seasons
UpdateHandlerSeasons == IF requests = <<>> THEN "fetch_seasons" ELSE "update_except"
UpdateHandlerNone == "raised"
UpdateHandler == "update_except"

\* where control goes when the series poster fetch raises
PosterHandlerNone == UpdateHandler
PosterHandler == "series_banner"

SeasonKnownAlways(m, n) == TRUE
\* season_num in media.seasons
SeasonKnown(m, n) == n \in DOMAIN m

EpisodeKnownAlways(m, n, e) == TRUE
\* ep_num in media.seasons[season_num].episodes
EpisodeKnown(m, n, e) == IF n \in DOMAIN m THEN e \in m[n] ELSE FALSE

GenresSyncMerge(genres, record) == genres \cup Range(Get(record, "genres", <<>>))
\* metadata.genres.clear(), then add() of every remote genre
GenresSync(genres, record) ==
    LET cleared == {}
    IN cleared \cup Range(Get(record, "genres", <<>>))

AfterSeriesFetchReturn(record) ==
    IF Truthy(record) THEN "series_fields" ELSE "update_done"
\* if series (line 107): the series block, or on to the seasons (line 154)
AfterSeriesFetch(record) ==
    IF Truthy(record) THEN "series_fields" ELSE "fetch_seasons"

SeriesFieldsNoReset(md, record) ==
    [md EXCEPT !.title = Get(record, "title", PyNone),
               !.summary = Get(record, "summary", PyNone)]
\* title, summary, and originally_available_at = None (lines 109-111)
SeriesFields(md, record) ==
    [md EXCEPT !.title = Get(record, "title", PyNone),
               !.summary = Get(record, "summary", PyNone),
               !.originally_available_at = NoDate]

SeasonsDoneSeriesLast ==
    IF \E k \in 1..Len(writes) : writes[k].kind = "series"
      THEN "update_done" ELSE "series_fields"
\* the end of the season loop is the end of the try block (lines 160-178)
SeasonsDone == "update_done"

\* lines 101-107: fetch the series record
UpdateFetchSeries ==
    /\ pc = "update"
    /\ requests' = Append(requests, SeriesUrl(MetadataId))
    /\ IF SeriesUrl(MetadataId) \in fail
         THEN /\ pc' = UpdateHandler
              /\ UNCHANGED series
         ELSE /\ series' = RemoteSeries(seriesShape)
              /\ pc' = AfterSeriesFetch(series')
    /\ UNCHANGED <<errors, slist, si, elist, ei>>
    /\ UNCHANGED <<envVars, hostVars, histVars, searchVars>>

\* lines 109-111: title, summary, and the date reset to None
UpdateSeriesFields ==
    /\ pc = "series_fields"
    /\ metadata' = SeriesFields(metadata, series)
    /\ writes' = writes \o <<W("series", 0, 0, "title"), W("series", 0, 0, "summary"),
                             W("series", 0, 0, "originally_available_at")>>
    /\ pc' = "series_date"
    /\ UNCHANGED <<errors, requests, media, seasons, run, snapshot>>
    /\ UNCHANGED <<envVars, localVars, searchVars>>

\* lines 113-117: the date synthesized from the year
UpdateSeriesDate ==
    /\ pc = "series_date"
    /\ IF HasInt(series, "year") /\ SeriesDateKey \notin fail
         THEN /\ metadata' = [metadata EXCEPT !.originally_available_at =
                                 ParseDate(DateString(series["year"], 1, 1))]
              /\ writes' = Append(writes, W("series", 0, 0, "originally_available_at"))
         ELSE UNCHANGED <<metadata, writes>>
    /\ pc' = "series_genres"
    /\ UNCHANGED <<errors, requests, media, seasons, run, snapshot>>
    /\ UNCHANGED <<envVars, localVars, searchVars>>

\* lines 119-125: studio, content rating, genres
UpdateSeriesGenres ==
    /\ pc = "series_genres"
    /\ metadata' = [metadata EXCEPT
                      !.studio = Get(series, "studio", PyNone),
                      !.content_rating = Get(series, "content_rating", PyNone),
                      !.genres = GenresSync(metadata.genres, series)]
    /\ writes' = writes \o <<W("series", 0, 0, "studio"),
                             W("series", 0, 0, "content_rating"),
                             W("series", 0, 0, "genres")>>
    /\ pc' = "series_poster"
    /\ UNCHANGED <<errors, requests, media, seasons, run, snapshot>>
    /\ UNCHANGED <<envVars, localVars, searchVars>>

\* lines 128-134: the series poster
UpdatePoster ==
    /\ pc = "series_poster"
    /\ IF HasStr(series, "poster_url")
         THEN LET url == series["poster_url"]
              IN /\ requests' = Append(requests, url)
                 /\ IF url \in fail
                      THEN /\ pc' = PosterHandler
                           /\ UNCHANGED <<metadata, writes>>
                      ELSE /\ metadata' = [metadata EXCEPT !.posters =
                                              Attach(@, url)]
                           /\ writes' = Append(writes, W("series", 0, 0, "posters"))
                           /\ pc' = "series_banner"
         ELSE /\ pc' = "series_banner"
              /\ UNCHANGED <<requests, metadata, writes>>
    /\ UNCHANGED <<errors, media, seasons, run, snapshot>>
    /\ UNCHANGED <<envVars, localVars, searchVars>>

\* lines 137-143: the series banner
UpdateBanner ==
    /\ pc = "series_banner"
    /\ IF HasStr(series, "banner_url")
         THEN LET url == series["banner_url"]
              IN /\ requests' = Append(requests, url)
                 /\ IF url \in fail
                      THEN UNCHANGED <<metadata, writes>>
                      ELSE /\ metadata' = [metadata EXCEPT !.banners =
                                              Attach(@, url)]
                           /\ writes' = Append(writes, W("series", 0, 0, "banners"))
         ELSE UNCHANGED <<requests, metadata, writes>>
    /\ pc' = "series_fanart"
    /\ UNCHANGED <<errors, media, seasons, run, snapshot>>
    /\ UNCHANGED <<envVars, localVars, searchVars>>

\* lines 146-152: the series fanart
UpdateFanart ==
    /\ pc = "series_fanart"
    /\ IF HasStr(series, "fanart_url")
         THEN LET url == series["fanart_url"]
              IN /\ requests' = Append(requests, url)
                 /\ IF url \in fail
                      THEN UNCHANGED <<metadata, writes>>
                      ELSE /\ metadata' = [metadata EXCEPT !.art =
                                              Attach(@, url)]
                           /\ writes' = Append(writes, W("series", 0, 0, "art"))
         ELSE UNCHANGED <<requests, metadata, writes>>
    /\ pc' = "fetch_seasons"
    /\ UNCHANGED <<errors, media, seasons, run, snapshot>>
    /\ UNCHANGED <<envVars, localVars, searchVars>>

\* lines 155-159: fetch the season list
UpdateFetchSeasons ==
    /\ pc = "fetch_seasons"
    /\ requests' = Append(requests, SeasonsUrl(MetadataId))
    /\ IF SeasonsUrl(MetadataId) \in fail
         THEN /\ pc' = UpdateHandler
              /\ UNCHANGED <<slist, si>>
         ELSE LET seasons_response == SeasonsResponse(seasonsShape, fail)
              IN IF "seasons" \in DOMAIN seasons_response
                   THEN /\ slist' = seasons_response["seasons"]
                        /\ si' = 1
                        /\ pc' = "season_loop"
                   ELSE /\ pc' = "update_done"
                        /\ UNCHANGED <<slist, si>>
    /\ UNCHANGED <<errors, series, elist, ei>>
    /\ UNCHANGED <<envVars, hostVars, histVars, searchVars>>

\* a title taken from the remote season without a default
SeasonTitleNoDefault(season_data, season_num) == Get(season_data, "title", PyNone)

\* line 164: season_data.get('title', "Season %s" % season_num)
SeasonTitle(season_data, season_num) ==
    Get(season_data, "title", "Season " \o ToString(season_num))

\* line 165: season_data.get('summary', '')
SeasonSummary(season_data) == Get(season_data, "summary", "")

\* lines 160-165: the next entry of the season list
UpdateSeason ==
    /\ pc = "season_loop"
    /\ IF si > Len(slist)
         THEN /\ pc' = SeasonsDone
              /\ UNCHANGED <<si, seasons, writes>>
         ELSE LET season_data == slist[si]
              IN IF ~IsMapping(season_data)
                   \* season_data.get raises AttributeError
                   THEN /\ pc' = UpdateHandler
                        /\ UNCHANGED <<si, seasons, writes>>
                   ELSE LET season_num == Get(season_data, "season_number", 0)
                        IN IF SeasonKnown(media, season_num)
                             THEN /\ seasons' = WithSeason(seasons, season_num,
                                     [SeasonAt(seasons, season_num) EXCEPT
                                        !.title = SeasonTitle(season_data, season_num),
                                        !.summary = SeasonSummary(season_data)])
                                  /\ writes' = writes \o
                                       <<W("season", season_num, 0, "title"),
                                         W("season", season_num, 0, "summary")>>
                                  /\ pc' = "season_poster"
                                  /\ UNCHANGED si
                             ELSE /\ si' = si + 1
                                  /\ pc' = "season_loop"
                                  /\ UNCHANGED <<seasons, writes>>
    /\ UNCHANGED <<errors, requests, media, metadata, run, snapshot>>
    /\ UNCHANGED <<envVars, series, slist, elist, ei, searchVars>>

\* lines 168-174: the season poster
UpdateSeasonPoster ==
    /\ pc = "season_poster"
    /\ LET season_data == slist[si]
           season_num == season_data["season_number"]
       IN IF HasStr(season_data, "poster_url")
            THEN LET url == season_data["poster_url"]
                 IN /\ requests' = Append(requests, url)
                    /\ IF url \in fail
                         THEN UNCHANGED <<seasons, writes>>
                         ELSE /\ seasons' = WithSeason(seasons, season_num,
                                    [SeasonAt(seasons, season_num) EXCEPT !.posters =
                                        Attach(@, url)])
                              /\ writes' = Append(writes,
                                                  W("season", season_num, 0, "posters"))
            ELSE UNCHANGED <<requests, seasons, writes>>
    /\ pc' = "fetch_episodes"
    /\ UNCHANGED <<errors, media, metadata, run, snapshot>>
    /\ UNCHANGED <<envVars, localVars, searchVars>>

UpdateExceptRollback ==
    /\ pc = "update_except"
    /\ errors' = errors + 1
    /\ pc' = "update_done"
    /\ metadata' = [MetadataInit EXCEPT !.genres = metadata.genres]
    /\ seasons' = SeasonsInit
    /\ UNCHANGED <<requests, media>>
    /\ UNCHANGED <<envVars, localVars, histVars, searchVars>>
\* lines 179-180: except Exception: Log.Error
UpdateExcept ==
    /\ pc = "update_except"
    /\ errors' = errors + 1
    /\ pc' = "update_done"
    /\ UNCHANGED requests
    /\ UNCHANGED <<envVars, hostVars, localVars, histVars, searchVars>>

----------------------------------------------------------------------------
(* SportarrAgent.update_episodes *)

\* where an exception raised inside update_episodes' try block goes
\* a handler that asks for the episode list a second and a third time
EpisodesHandlerRetry ==
    LET url == EpisodesUrl(MetadataId, slist[si]["season_number"])
    IN IF Cardinality({k \in 1..Len(requests) : requests[k] = url}) < 2
         THEN "fetch_episodes"
         ELSE "episodes_except"
EpisodesHandlerNone == UpdateHandler
EpisodesHandler == "episodes_except"

\* the season whose episodes are being updated
SeasonNum == slist[si]["season_number"]

\* where control goes when the air date does not parse (lines 214-215)
AirDateHandlerNone == EpisodesHandler
AirDateHandler == "episode_duration"

EpisodeTitleNoDefault(ep_data, ep_num) ==
    LET title == Get(ep_data, "title", PyNone)
    IN IF HasStr(ep_data, "part_name")
         THEN title \o " - " \o ep_data["part_name"]
         ELSE title
\* title with the part name appended (lines 203-205)
EpisodeTitle(ep_data, ep_num) ==
    LET title == Get(ep_data, "title", "Episode " \o ToString(ep_num))
    IN IF HasStr(ep_data, "part_name")
         THEN title \o " - " \o ep_data["part_name"]
         ELSE title

EpisodeDurationSeconds(episode, ep_data) ==
    [episode EXCEPT !.duration = ep_data["duration_minutes"] * 60]
EpisodeDurationAdd(episode, ep_data) ==
    [episode EXCEPT !.duration = @ + ep_data["duration_minutes"] * 60 * 1000]
\* episode.duration = ep_data['duration_minutes'] * 60 * 1000 (line 219)
EpisodeDuration(episode, ep_data) ==
    [episode EXCEPT !.duration = ep_data["duration_minutes"] * 60 * 1000]

\* return of update_episodes to the season loop of update (line 177)
ReturnToUpdate ==
    /\ si' = si + 1
    /\ pc' = "season_loop"

\* lines 188-195: fetch the episode list of the season
EpisodesFetch ==
    /\ pc = "fetch_episodes"
    /\ requests' = Append(requests, EpisodesUrl(MetadataId, SeasonNum))
    /\ IF EpisodesUrl(MetadataId, SeasonNum) \in fail
         THEN /\ pc' = EpisodesHandler
              /\ UNCHANGED <<si, elist, ei>>
         ELSE LET episodes_response == EpisodesResponse(SeasonNum, fail)
              IN IF "episodes" \in DOMAIN episodes_response
                   THEN /\ elist' = episodes_response["episodes"]
                        /\ ei' = 1
                        /\ pc' = "episode_loop"
                        /\ UNCHANGED si
                   ELSE /\ ReturnToUpdate
                        /\ UNCHANGED <<elist, ei>>
    /\ UNCHANGED <<errors, series, slist>>
    /\ UNCHANGED <<envVars, hostVars, histVars, searchVars>>

\* lines 196-208: the next entry of the episode list
EpisodesEntry ==
    /\ pc = "episode_loop"
    /\ IF ei > Len(elist)
         THEN /\ ReturnToUpdate
              /\ UNCHANGED <<ei, seasons, writes>>
         ELSE LET ep_data == elist[ei]
              IN IF ~IsMapping(ep_data)
                   \* ep_data.get raises AttributeError
                   THEN /\ pc' = EpisodesHandler
                        /\ UNCHANGED <<si, ei, seasons, writes>>
                   ELSE LET ep_num == Get(ep_data, "episode_number", 0)
                        IN IF EpisodeKnown(media, SeasonNum, ep_num)
                             THEN /\ seasons' = WithEpisode(seasons, SeasonNum, ep_num,
                                     [EpisodeAt(seasons, SeasonNum, ep_num) EXCEPT
                                        !.title = EpisodeTitle(ep_data, ep_num),
                                        !.summary = Get(ep_data, "summary", "")])
                                  /\ writes' = writes \o
                                       <<W("episode", SeasonNum, ep_num, "title"),
                                         W("episode", SeasonNum, ep_num, "summary")>>
                                  /\ pc' = "episode_date"
                                  /\ UNCHANGED <<si, ei>>
                             ELSE /\ ei' = ei + 1
                                  /\ pc' = "episode_loop"
                                  /\ UNCHANGED <<si, seasons, writes>>
    /\ UNCHANGED <<errors, requests, media, metadata, run, snapshot>>
    /\ UNCHANGED <<envVars, series, slist, elist, searchVars>>

\* lines 211-215: the air date
EpisodesAirDate ==
    /\ pc = "episode_date"
    /\ LET ep_data == elist[ei]
           ep_num == ep_data["episode_number"]
       IN IF "air_date" \in DOMAIN ep_data
            THEN IF EpisodeDateKey(SeasonNum, ep_num) \in fail
                   THEN /\ pc' = AirDateHandler
                        /\ UNCHANGED <<seasons, writes>>
                   ELSE /\ seasons' = WithEpisode(seasons, SeasonNum, ep_num,
                                  [EpisodeAt(seasons, SeasonNum, ep_num) EXCEPT
                                     !.originally_available_at =
                                        ParseDate(ep_data["air_date"])])
                        /\ writes' = Append(writes, W("episode", SeasonNum, ep_num,
                                                      "originally_available_at"))
                        /\ pc' = "episode_duration"
            ELSE /\ pc' = "episode_duration"
                 /\ UNCHANGED <<seasons, writes>>
    /\ UNCHANGED <<errors, requests, media, metadata, run, snapshot>>
    /\ UNCHANGED <<envVars, localVars, searchVars>>

\* lines 218-219: the duration
EpisodesDuration ==
    /\ pc = "episode_duration"
    /\ LET ep_data == elist[ei]
           ep_num == ep_data["episode_number"]
       IN IF HasInt(ep_data, "duration_minutes")
            THEN /\ seasons' = WithEpisode(seasons, SeasonNum, ep_num,
                        EpisodeDuration(EpisodeAt(seasons, SeasonNum, ep_num), ep_data))
                 /\ writes' = Append(writes, W("episode", SeasonNum, ep_num, "duration"))
            ELSE UNCHANGED <<seasons, writes>>
    /\ pc' = "episode_thumb"
    /\ UNCHANGED <<errors, requests, media, metadata, run, snapshot>>
    /\ UNCHANGED <<envVars, localVars, searchVars>>

\* lines 222-230: the episode thumbnail, then the next entry
EpisodesThumb ==
    /\ pc = "episode_thumb"
    /\ LET ep_data == elist[ei]
           ep_num == ep_data["episode_number"]
       IN IF HasStr(ep_data, "thumb_url")
            THEN LET url == ep_data["thumb_url"]
                 IN /\ requests' = Append(requests, url)
                    /\ IF url \in fail
                         THEN UNCHANGED <<seasons, writes>>
                         ELSE /\ seasons' = WithEpisode(seasons, SeasonNum, ep_num,
                                    [EpisodeAt(seasons, SeasonNum, ep_num) EXCEPT
                                       !.thumbs = Attach(@, url)])
                              /\ writes' = Append(writes,
                                             W("episode", SeasonNum, ep_num, "thumbs"))
            ELSE UNCHANGED <<requests, seasons, writes>>
    /\ ei' = ei + 1
    /\ pc' = "episode_loop"
    /\ UNCHANGED <<errors, media, metadata, run, snapshot>>
    /\ UNCHANGED <<envVars, series, slist, si, elist, searchVars>>

\* an except clause that logs and raises again into update
EpisodesExceptReraise ==
    /\ pc = "episodes_except"
    /\ errors' = errors + 1
    /\ pc' = UpdateHandler
    /\ UNCHANGED requests
    /\ UNCHANGED <<envVars, hostVars, histVars, searchVars>>
    /\ UNCHANGED <<series, slist, si, elist, ei>>

\* lines 232-233: except Exception: Log.Error, then return to update
EpisodesExcept ==
    /\ pc = "episodes_except"
    /\ errors' = errors + 1
    /\ ReturnToUpdate
    /\ UNCHANGED requests
    /\ UNCHANGED <<envVars, hostVars, histVars, searchVars>>
    /\ UNCHANGED <<series, slist, elist, ei>>

----------------------------------------------------------------------------
(* The host calls update again on the same series, the remote service and *)
(* the transport behaving as before                                       *)
UpdateAgain ==
    /\ pc = "update_done"
    /\ run < MaxRuns
    /\ snapshot' = <<metadata, seasons>>
    /\ run' = run + 1
    /\ pc' = "update"
    /\ errors' = 0
    /\ requests' = <<>>
    /\ writes' = <<>>
    /\ series' = JsonNull
    /\ slist' = <<>> /\ si' = 0 /\ elist' = <<>> /\ ei' = 0
    /\ UNCHANGED <<envVars, hostVars, searchVars>>

Init ==
    /\ pc = "update"
    /\ errors = 0
    /\ requests = <<>>
    /\ seriesShape \in {"null", "empty", "bare", "noyear", "full"}
    /\ seasonsShape \in {"list", "nokey"}
    /\ fail \in SubsetsUpTo(FailPoints, MaxFailures)
    /\ media = MediaInit
    /\ metadata \in {[MetadataInit EXCEPT !.genres = g] : g \in HostGenres}
    /\ seasons = SeasonsInit
    /\ series = JsonNull
    /\ slist = <<>> /\ si = 0 /\ elist = <<>> /\ ei = 0
    /\ run = 1
    /\ snapshot = <<>>
    /\ writes = <<>>
    /\ show = <<>> /\ mediaYear = 0 /\ searchFetch = "raise"
    /\ response = <<>> /\ iter = <<>> /\ idx = 0 /\ results = <<>>

Next ==
    \/ UpdateFetchSeries
    \/ UpdateSeriesFields
    \/ UpdateSeriesDate
    \/ UpdateSeriesGenres
    \/ UpdatePoster
    \/ UpdateBanner
    \/ UpdateFanart
    \/ UpdateFetchSeasons
    \/ UpdateSeason
    \/ UpdateSeasonPoster
    \/ UpdateExcept
    \/ EpisodesFetch
    \/ EpisodesEntry
    \/ EpisodesAirDate
    \/ EpisodesDuration
    \/ EpisodesThumb
    \/ EpisodesExcept
    \/ UpdateAgain

Spec == Init /\ [][Next]_vars

----------------------------------------------------------------------------
(* The agent as the host uses it: one search call, or update calls *)

AgentInit == SearchInit \/ Init

AgentNext == SearchNext \/ Next

AgentSpec == AgentInit /\ [][AgentNext]_vars

----------------------------------------------------------------------------
(* Properties of search, checked under SearchSpec *)

\* C5: search never raises to its caller; after a failure of the fetch or of
\* the processing of a result, the result list holds exactly the candidates
\* appended before the failure, a prefix in response order of the first 10
\* remote results, empty when nothing had been appended.
C5_SearchNeverRaises ==
    LET remote == IF searchFetch = "ok" THEN Get(response, "results", <<>>) ELSE <<>>
    IN /\ pc # "raised"
       /\ pc \in {"search_except", "search_done"} =>
            /\ Len(results) = idx
            /\ Len(results) <= 10
            /\ Len(results) <= Len(remote)
            /\ \A i \in 1..Len(results) :
                 /\ results[i].id = ToString(remote[i]["id"])
                 /\ results[i].name = Get(remote[i], "title", Null)
            /\ (searchFetch # "ok" => results = <<>>)

\* a failure in the middle of the list left the candidates appended before it
C5_Witness ==
    /\ pc = "search_done"
    /\ errors = 1
    /\ Len(results) >= 2
    /\ Len(results) < Len(response["results"])

C8_NoReorder ==
    \A i \in 1..Len(results) :
        /\ searchFetch = "ok"
        /\ "results" \in DOMAIN response
        /\ i <= Len(response["results"])
        /\ LET r == response["results"][i]
           IN /\ results[i].id = ToString(r["id"])
              /\ results[i].name = Get(r, "title", Null)
              /\ results[i].year = Get(r, "year", 0)
              /\ results[i].score = SearchScore(i - 1, Get(r, "title", <<>>), show)

\* an exact match scored 100 stays behind an earlier, lower-scored candidate
C8_Witness ==
    /\ pc = "search_done"
    /\ \E i \in 1..Len(results) : \E j \in 1..Len(results) :
         /\ i < j
         /\ results[i].score < results[j].score
         /\ Lower(results[j].name) = Lower(show)

\* C17: a search response that is a mapping without a results key gives no
\* candidate, and search returns without entering its except clause: no
\* error is logged.
C17_NoResultsKey ==
    (searchFetch = "ok" /\ "results" \notin DOMAIN response) =>
        /\ pc \in {"search", "search_done"}
        /\ results = <<>>
        /\ errors = 0

\* search returned after one request for a response without results
C17_Witness ==
    /\ pc = "search_done"
    /\ searchFetch = "ok"
    /\ "results" \notin DOMAIN response
    /\ Len(requests) = 1
    /\ results = <<>>

----------------------------------------------------------------------------
(* Properties of update, checked under Spec *)

\* C1: non-fabrication: at every moment of update and update_episodes, every
\* season field written belongs to a season number of the host's known set
\* and every episode field written to a (season, episode) pair of the host's
\* known set; the host's seasons and episodes are neither added nor removed.
C1_NonFabrication ==
    /\ media = MediaInit
    /\ DOMAIN seasons = DOMAIN media
    /\ \A n \in DOMAIN seasons : DOMAIN seasons[n].episodes = media[n]
    /\ \A i \in 1..Len(writes) :
         /\ writes[i].kind = "season" => writes[i].season \in DOMAIN media
         /\ writes[i].kind = "episode" =>
              /\ writes[i].season \in DOMAIN media
              /\ writes[i].episode \in media[writes[i].season]

\* the entries behind the unknown season and the unknown episode were written
C1_Witness ==
    /\ pc = "update_done"
    /\ si > NumSeasonEntries
    /\ \E i \in 1..Len(writes) : writes[i] = W("episode", 1, 2, "title")
    /\ \E i \in 1..Len(writes) : writes[i] = W("season", 2, 0, "title")
    /\ \E i \in 1..Len(slist) : slist[i]["season_number"] \notin DOMAIN media
    /\ seasons # SeasonsInit

\* C2: no episode-list request and no season-poster request is issued for a
\* remote season whose number the host does not know; the episodes endpoint
\* is requested only for numbers both in the remote list and known to the host.
C2_NoFetchForUnknownSeason ==
    \A k \in 1..Len(requests) :
        /\ \A i \in 1..NumSeasonEntries :
             SeasonEntry(i)["season_number"] \notin DOMAIN media =>
                /\ requests[k] # EpisodesUrl(MetadataId, SeasonEntry(i)["season_number"])
                /\ requests[k] # SeasonEntry(i)["poster_url"]
        /\ \A n \in 0..4 :
             requests[k] = EpisodesUrl(MetadataId, n) =>
                /\ n \in DOMAIN media
                /\ \E i \in 1..Len(slist) :
                     IsMapping(slist[i]) /\ slist[i]["season_number"] = n

\* the whole list was processed, the unknown season included
C2_Witness ==
    /\ pc = "update_done"
    /\ si > NumSeasonEntries
    /\ \E i \in 1..Len(slist) : slist[i]["season_number"] \notin DOMAIN media
    /\ \E k \in 1..Len(requests) : requests[k] = EpisodesUrl(MetadataId, 1)
    /\ \E k \in 1..Len(requests) : requests[k] = EpisodesUrl(MetadataId, 2)
    /\ \E k \in 1..Len(requests) : requests[k] = "http://img/s2.jpg"

\* C3: image fetches are isolated: which image fetches are attempted and which
\* scalar fields are written depends only on the fetches of the JSON
\* endpoints and on the list entries, never on the failure of an image fetch;
\* every image slot so reached is requested, and attached when its own fetch
\* succeeds.
C3_AssetIsolation ==
    LET record == RemoteSeries(seriesShape)
        seriesPresent == SeriesUrl(MetadataId) \notin fail /\ Truthy(record)
        listed == /\ SeriesUrl(MetadataId) \notin fail
                  /\ SeasonsUrl(MetadataId) \notin fail
                  /\ seasonsShape = "list"
        num(i) == SeasonEntry(i)["season_number"]
        seasonReached(i) ==
            /\ listed
            /\ \A k \in 1..i : SeasonEntryKey(k) \notin fail
            /\ num(i) \in DOMAIN media
        episodeReached(i, j) ==
            /\ seasonReached(i)
            /\ EpisodesUrl(MetadataId, num(i)) \notin fail
            /\ EpisodesNoKey(num(i)) \notin fail
            /\ \A k \in 1..j : EpisodeEntryKey(num(i), k) \notin fail
            /\ EpisodeEntry(num(i), j)["episode_number"] \in media[num(i)]
        requested(url) == \E k \in 1..Len(requests) : requests[k] = url
        attached(coll, url) ==
            url \notin fail =>
               url \in DOMAIN coll /\ coll[url] = ProxyMedia(Content(url))
        written(w) == \E k \in 1..Len(writes) : writes[k] = w
    IN pc = "update_done" =>
         /\ seriesPresent =>
              /\ written(W("series", 0, 0, "title"))
              /\ written(W("series", 0, 0, "genres"))
              /\ HasStr(record, "poster_url") =>
                   /\ requested(record["poster_url"])
                   /\ attached(metadata.posters, record["poster_url"])
              /\ HasStr(record, "banner_url") =>
                   /\ requested(record["banner_url"])
                   /\ attached(metadata.banners, record["banner_url"])
              /\ HasStr(record, "fanart_url") =>
                   /\ requested(record["fanart_url"])
                   /\ attached(metadata.art, record["fanart_url"])
         /\ \A i \in 1..NumSeasonEntries :
              seasonReached(i) =>
                 /\ written(W("season", num(i), 0, "title"))
                 /\ written(W("season", num(i), 0, "summary"))
                 /\ HasStr(SeasonEntry(i), "poster_url") =>
                      /\ requested(SeasonEntry(i)["poster_url"])
                      /\ attached(seasons[num(i)].posters, SeasonEntry(i)["poster_url"])
                 /\ \A j \in 1..NumEpisodeEntries(num(i)) :
                      episodeReached(i, j) =>
                         LET ep == EpisodeEntry(num(i), j)
                             e == ep["episode_number"]
                         IN /\ written(W("episode", num(i), e, "title"))
                            /\ written(W("episode", num(i), e, "summary"))
                            /\ HasStr(ep, "thumb_url") =>
                                 /\ requested(ep["thumb_url"])
                                 /\ attached(seasons[num(i)].episodes[e].thumbs,
                                             ep["thumb_url"])

\* the series poster failed; banner, fanart, season posters and thumbnails
\* were fetched and attached
C3_Witness ==
    /\ pc = "update_done"
    /\ "http://img/poster.jpg" \in fail
    /\ \E k \in 1..Len(requests) : requests[k] = "http://img/poster.jpg"
    /\ "http://img/poster.jpg" \notin DOMAIN metadata.posters
    /\ "http://img/banner.jpg" \in DOMAIN metadata.banners
    /\ "http://img/fanart.jpg" \in DOMAIN metadata.art
    /\ "http://img/s1.jpg" \in DOMAIN seasons[1].posters
    /\ "http://img/s2.jpg" \in DOMAIN seasons[2].posters
    /\ "http://img/s1e1.jpg" \in DOMAIN seasons[1].episodes[1].thumbs
    /\ "http://img/s1e2.jpg" \in DOMAIN seasons[1].episodes[2].thumbs
    /\ "http://img/s2e1.jpg" \in DOMAIN seasons[2].episodes[1].thumbs

\* C4: update never propagates a failure to its caller: no exception leaves
\* update, and whenever nothing more can run, update has returned.
C4_UpdateNeverRaises ==
    /\ pc # "raised"
    /\ ~ENABLED Next => pc = "update_done"

\* both except clauses ran in one call, and update returned
C4_Witness ==
    /\ pc = "update_done"
    /\ errors >= 2
    /\ fail # {}

\* C9: idempotence: when update is called again with the same remote
\* responses and the same outcome of every fetch and parse, every host field
\* is after the second call what it was after the first.
C9_Idempotent ==
    (pc = "update_done" /\ run >= 2) => <<metadata, seasons>> = snapshot

\* a second call that wrote series, season and episode fields and images
C9_Witness ==
    /\ pc = "update_done"
    /\ run >= 2
    /\ metadata.title # MetadataInit.title
    /\ \E i \in 1..Len(writes) : writes[i] = W("series", 0, 0, "genres")
    /\ \E i \in 1..Len(writes) : writes[i] = W("series", 0, 0, "posters")
    /\ \E i \in 1..Len(writes) : writes[i] = W("episode", 1, 1, "duration")
    /\ \E i \in 1..Len(writes) : writes[i] = W("episode", 2, 1, "thumbs")

\* C10: genre replacement: once update has run with a present series record,
\* the host genre set is exactly the set of genres of the remote record,
\* whatever it held before; it is empty when the record has no genres.
C10_GenresReplaced ==
    (pc = "update_done" /\ SeriesUrl(MetadataId) \notin fail
        /\ Truthy(RemoteSeries(seriesShape)))
    => metadata.genres =
         {Get(RemoteSeries(seriesShape), "genres", <<>>)[i] :
            i \in DOMAIN Get(RemoteSeries(seriesShape), "genres", <<>>)}

\* a record without genres emptied a genre set that held genres
C10_Witness ==
    /\ pc = "update_done"
    /\ run = 1
    /\ series = SeriesBare
    /\ \A g \in HostGenres : g # {}
    /\ metadata.genres = {}

\* C11: episode title composition: the title written for a matched episode n
\* is the remote title, or "Episode n" when the remote title is absent, with
\* " - " and the part name appended when a part name is present.
C11_EpisodeTitle ==
    \A k \in 1..Len(writes) :
        (writes[k].kind = "episode" /\ writes[k].field = "title") =>
           LET n == writes[k].season
               e == writes[k].episode
           IN \E j \in 1..NumEpisodeEntries(n) :
                LET ep == EpisodeEntry(n, j)
                    base == IF "title" \in DOMAIN ep THEN ep["title"]
                            ELSE "Episode " \o ToString(e)
                IN /\ ep["episode_number"] = e
                   /\ seasons[n].episodes[e].title =
                        IF "part_name" \in DOMAIN ep
                          THEN base \o " - " \o ep["part_name"]
                          ELSE base

\* the four combinations of title and part name were written
C11_Witness ==
    /\ pc = "update_done"
    /\ seasons[1].episodes[1].title = "Main Card"
    /\ seasons[1].episodes[2].title = "Episode 2 - pt1"
    /\ seasons[2].episodes[1].title = "Prelims - pt1"
    /\ seasons[2].episodes[3].title = "Episode 3"

\* C12 as stated: a duration_minutes present with value m gives the host
\* duration m * 60 * 1000; an absent one leaves the duration of before the
\* sync.
C12_Original ==
    pc = "update_done" =>
      \A k \in 1..Len(writes) :
        (writes[k].kind = "episode" /\ writes[k].field = "title") =>
           LET n == writes[k].season
               e == writes[k].episode
               before == IF run = 1 THEN SeasonsInit[n].episodes[e].duration
                         ELSE snapshot[2][n].episodes[e].duration
           IN \A j \in 1..NumEpisodeEntries(n) :
                LET ep == EpisodeEntry(n, j)
                IN ep["episode_number"] = e =>
                     seasons[n].episodes[e].duration =
                        IF "duration_minutes" \in DOMAIN ep
                          THEN ep["duration_minutes"] * 60 * 1000
                          ELSE before

\* C12 amended: a duration_minutes present with a non-zero value m gives the
\* host duration m * 60 * 1000 (45 gives 2,700,000); one that is absent or 0
\* leaves the duration of before the sync.
C12_DurationWhenNonZero ==
    pc = "update_done" =>
      \A k \in 1..Len(writes) :
        (writes[k].kind = "episode" /\ writes[k].field = "title") =>
           LET n == writes[k].season
               e == writes[k].episode
               before == IF run = 1 THEN SeasonsInit[n].episodes[e].duration
                         ELSE snapshot[2][n].episodes[e].duration
           IN \A j \in 1..NumEpisodeEntries(n) :
                LET ep == EpisodeEntry(n, j)
                IN ep["episode_number"] = e =>
                     seasons[n].episodes[e].duration =
                        IF "duration_minutes" \in DOMAIN ep /\ ep["duration_minutes"] # 0
                          THEN ep["duration_minutes"] * 60 * 1000
                          ELSE before

\* 45 minutes stored as 2,700,000; an absent and a zero duration left alone
C12_Witness ==
    /\ pc = "update_done"
    /\ run = 1
    /\ seasons[1].episodes[1].duration = 2700000
    /\ \E k \in 1..Len(writes) : writes[k] = W("episode", 1, 2, "title")
    /\ seasons[1].episodes[2].duration = SeasonsInit[1].episodes[2].duration
    /\ \E k \in 1..Len(writes) : writes[k] = W("episode", 2, 3, "title")
    /\ seasons[2].episodes[3].duration = SeasonsInit[2].episodes[3].duration

\* C13: write ordering within one update: every series-level write comes
\* before the first season or episode write, and every write to a season's
\* own fields comes before the first write to an episode of that season.
C13_WriteOrder ==
    \A i \in 1..Len(writes) : \A j \in 1..Len(writes) :
        i < j =>
          /\ ~(writes[j].kind = "series" /\ writes[i].kind # "series")
          /\ ~(/\ writes[j].kind = "season"
               /\ writes[i].kind = "episode"
               /\ writes[i].season = writes[j].season)

\* series, season (poster included) and episode fields were all written,
\* for two seasons
C13_Witness ==
    /\ pc = "update_done"
    /\ \E k \in 1..Len(writes) : writes[k] = W("series", 0, 0, "art")
    /\ \E k \in 1..Len(writes) : writes[k] = W("season", 1, 0, "posters")
    /\ \E k \in 1..Len(writes) : writes[k] = W("episode", 1, 2, "thumbs")
    /\ \E k \in 1..Len(writes) : writes[k] = W("season", 2, 0, "posters")
    /\ \E k \in 1..Len(writes) : writes[k] = W("episode", 2, 1, "thumbs")

\* C14: no rollback: a host field changes only in a step that writes that
\* field; a step that handles a failure writes nothing, so that every field
\* written before a failure keeps the value written.
C14_NoRollback ==
    [][LET new == {writes'[k] : k \in (Len(writes) + 1)..Len(writes')}
       IN /\ \A f \in DOMAIN metadata :
               metadata'[f] # metadata[f] => W("series", 0, 0, f) \in new
          /\ \A n \in DOMAIN seasons :
               /\ n \in DOMAIN seasons'
               /\ \A f \in {"title", "summary", "posters"} :
                    seasons'[n][f] # seasons[n][f] => W("season", n, 0, f) \in new
               /\ \A e \in DOMAIN seasons[n].episodes :
                    /\ e \in DOMAIN seasons'[n].episodes
                    /\ \A f \in DOMAIN seasons[n].episodes[e] :
                         seasons'[n].episodes[e][f] # seasons[n].episodes[e][f]
                            => W("episode", n, e, f) \in new
          /\ pc \in {"update_except", "episodes_except"} => new = {}
          /\ pc' \in {"update_except", "episodes_except"} => new = {}
      ]_vars

\* update failed at the last season entry; what it wrote before is in place
C14_Witness ==
    /\ pc = "update_done"
    /\ run = 1
    /\ errors >= 1
    /\ SeasonEntryKey(3) \in fail
    /\ metadata.title = "Premier League"
    /\ metadata.title # MetadataInit.title
    /\ seasons[1].title = "2024 Season"
    /\ seasons[1].episodes[1].title = "Main Card"

\* C15: when the series fetch returns no record (null or empty), no step of
\* update changes a series-level field: title, summary, date, studio, content
\* rating, genres, posters, banners and art stay as they were.
C15_NoRecordNoSeriesWrite ==
    [][(SeriesUrl(MetadataId) \notin fail /\ seriesShape \in {"null", "empty"})
         => metadata' = metadata]_vars

\* an empty record: the seasons were synced, the series fields are the old ones
C15_Witness ==
    /\ pc = "update_done"
    /\ seriesShape = "empty"
    /\ SeriesUrl(MetadataId) \notin fail
    /\ series = <<>>
    /\ metadata.title = MetadataInit.title
    /\ metadata.posters = MetadataInit.posters
    /\ \E k \in 1..Len(writes) : writes[k] = W("season", 1, 0, "title")

\* C16: when the series fetch returns no record without raising, update
\* requests the seasons next, syncs every matched season and every matched
\* episode that the season and episode responses let it reach, and returns.
C16_NoRecordSeasonsSynced ==
    LET listed == SeasonsUrl(MetadataId) \notin fail /\ seasonsShape = "list"
        num(i) == SeasonEntry(i)["season_number"]
        seasonReached(i) ==
            /\ listed
            /\ \A k \in 1..i : SeasonEntryKey(k) \notin fail
            /\ num(i) \in DOMAIN media
        episodeReached(i, j) ==
            /\ seasonReached(i)
            /\ EpisodesUrl(MetadataId, num(i)) \notin fail
            /\ EpisodesNoKey(num(i)) \notin fail
            /\ \A k \in 1..j : EpisodeEntryKey(num(i), k) \notin fail
            /\ EpisodeEntry(num(i), j)["episode_number"] \in media[num(i)]
    IN (pc = "update_done" /\ SeriesUrl(MetadataId) \notin fail
           /\ seriesShape \in {"null", "empty"})
       => /\ Len(requests) >= 2
          /\ requests[2] = SeasonsUrl(MetadataId)
          /\ \A i \in 1..NumSeasonEntries :
               seasonReached(i) =>
                 /\ seasons[num(i)].title =
                       Get(SeasonEntry(i), "title", "Season " \o ToString(num(i)))
                 /\ seasons[num(i)].summary = Get(SeasonEntry(i), "summary", "")
                 /\ \E k \in 1..Len(requests) :
                       requests[k] = EpisodesUrl(MetadataId, num(i))
                 /\ \A j \in 1..NumEpisodeEntries(num(i)) :
                      episodeReached(i, j) =>
                        \E k \in 1..Len(writes) :
                           writes[k] = W("episode", num(i),
                                         EpisodeEntry(num(i), j)["episode_number"],
                                         "title")

\* a null record, and both known seasons of the list synced with their episodes
C16_Witness ==
    /\ pc = "update_done"
    /\ seriesShape = "null"
    /\ SeriesUrl(MetadataId) \notin fail
    /\ errors = 0
    /\ seasons[1].title = "2024 Season"
    /\ seasons[2].title = "Season 2"
    /\ seasons[1].episodes[2].title = "Episode 2 - pt1"
    /\ seasons[2].episodes[1].title = "Prelims - pt1"

\* C18 as stated: with a year in the series record, a failed parse of the
\* synthesized date leaves originally_available_at at its value of before the
\* update call; a successful one sets January 1 of that year.
C18_Original ==
    LET record == RemoteSeries(seriesShape)
        before == IF run = 1 THEN MetadataInit.originally_available_at
                  ELSE snapshot[1].originally_available_at
    IN (pc = "update_done" /\ SeriesUrl(MetadataId) \notin fail
           /\ Truthy(record) /\ HasInt(record, "year"))
       => metadata.originally_available_at =
            IF SeriesDateKey \in fail THEN before
            ELSE [year |-> record["year"], month |-> 1, day |-> 1]

\* C18 amended: with a year in the series record, a failed parse of the
\* synthesized date is swallowed (the later series fields are still written)
\* and leaves originally_available_at None, the value assigned just before
\* the parse, whatever the host held before; a successful parse sets
\* January 1 of that year.
C18_SeriesDateNoneOnFailure ==
    LET record == RemoteSeries(seriesShape)
    IN (pc = "update_done" /\ SeriesUrl(MetadataId) \notin fail
           /\ Truthy(record) /\ HasInt(record, "year"))
       => /\ metadata.originally_available_at =
               IF SeriesDateKey \in fail THEN NoDate
               ELSE [year |-> record["year"], month |-> 1, day |-> 1]
          /\ \E k \in 1..Len(writes) : writes[k] = W("series", 0, 0, "genres")
          /\ metadata.studio = Get(record, "studio", PyNone)

\* the parse failed on a host that held a date: the date is gone
C18_Witness ==
    /\ pc = "update_done"
    /\ run = 1
    /\ seriesShape = "full"
    /\ SeriesDateKey \in fail
    /\ MetadataInit.originally_available_at # NoDate
    /\ metadata.originally_available_at = NoDate
    /\ metadata.studio = "Sportarr"

\* C19 as stated: once an exception of the seasons and episodes pass has been
\* caught, no further season or episode is fetched or written in that call.
C19_Original ==
    [][(errors > 0 /\ pc # "update_done")
         => (writes' = writes /\ requests' = requests)]_vars

\* C19 amended: an exception raised in update itself (the series fetch, the
\* seasons fetch, the processing of a season entry) ends all processing of
\* the series; an exception raised inside update_episodes (the episode-list
\* fetch, the processing of an episode entry) ends the episode processing of
\* that season only, and the later seasons of the list are still synced.
C19_AbortScope ==
    LET num(i) == SeasonEntry(i)["season_number"]
        index(n) == CHOOSE i \in 1..NumSeasonEntries : num(i) = n
        position(n, e) ==
            CHOOSE j \in 1..NumEpisodeEntries(n) :
                EpisodeEntry(n, j)["episode_number"] = e
        seasonReached(i) ==
            /\ SeriesUrl(MetadataId) \notin fail
            /\ SeasonsUrl(MetadataId) \notin fail
            /\ seasonsShape = "list"
            /\ \A k \in 1..i : SeasonEntryKey(k) \notin fail
            /\ num(i) \in DOMAIN media
        episodesFailed(n) ==
            \/ EpisodesUrl(MetadataId, n) \in fail
            \/ \E j \in 1..NumEpisodeEntries(n) : EpisodeEntryKey(n, j) \in fail
    IN /\ SeriesUrl(MetadataId) \in fail =>
            writes = <<>> /\ Len(requests) <= 1
       /\ SeasonsUrl(MetadataId) \in fail =>
            /\ \A k \in 1..Len(writes) : writes[k].kind = "series"
            /\ \A k \in 1..Len(requests) :
                 requests[k] = SeasonsUrl(MetadataId) => k = Len(requests)
       /\ \A i \in 1..NumSeasonEntries :
            SeasonEntryKey(i) \in fail =>
               /\ \A k \in 1..Len(writes) :
                    writes[k].kind # "series" => index(writes[k].season) < i
               /\ \A m \in i..NumSeasonEntries : \A k \in 1..Len(requests) :
                    requests[k] # EpisodesUrl(MetadataId, num(m))
       /\ \A k \in 1..Len(writes) :
            writes[k].kind = "episode" =>
               LET n == writes[k].season
               IN /\ EpisodesUrl(MetadataId, n) \notin fail
                  /\ \A j \in 1..NumEpisodeEntries(n) :
                       EpisodeEntryKey(n, j) \in fail =>
                          position(n, writes[k].episode) < j
       /\ pc = "update_done" =>
            \A i \in 1..NumSeasonEntries : \A m \in (i + 1)..NumSeasonEntries :
               (seasonReached(i) /\ episodesFailed(num(i)) /\ seasonReached(m)) =>
                  /\ \E k \in 1..Len(writes) :
                        writes[k] = W("season", num(m), 0, "title")
                  /\ \E k \in 1..Len(requests) :
                        requests[k] = EpisodesUrl(MetadataId, num(m))

\* the episode list of season 1 could not be fetched; season 2 and its
\* episodes were synced afterwards
C19_Witness ==
    /\ pc = "update_done"
    /\ EpisodesUrl(MetadataId, 1) \in fail
    /\ errors = 1
    /\ \E k \in 1..Len(writes) : writes[k] = W("season", 2, 0, "title")
    /\ \E k \in 1..Len(writes) : writes[k] = W("episode", 2, 1, "title")
    /\ \A k \in 1..Len(writes) : ~(writes[k].kind = "episode" /\ writes[k].season = 1)

\* C20: episode air date: for a matched episode, an air_date that parses
\* becomes the host's originally_available_at; when it does not parse or is
\* absent the field keeps its value of before the sync; either way the
\* duration and the thumbnail of the episode are processed and the later
\* episodes of the season are synced.
C20_EpisodeAirDate ==
    LET num(i) == SeasonEntry(i)["season_number"]
        episodeReached(i, j) ==
            /\ SeriesUrl(MetadataId) \notin fail
            /\ SeasonsUrl(MetadataId) \notin fail
            /\ seasonsShape = "list"
            /\ \A k \in 1..i : SeasonEntryKey(k) \notin fail
            /\ num(i) \in DOMAIN media
            /\ EpisodesUrl(MetadataId, num(i)) \notin fail
            /\ EpisodesNoKey(num(i)) \notin fail
            /\ \A k \in 1..j : EpisodeEntryKey(num(i), k) \notin fail
            /\ EpisodeEntry(num(i), j)["episode_number"] \in media[num(i)]
    IN pc = "update_done" =>
         \A i \in 1..NumSeasonEntries : \A j \in 1..NumEpisodeEntries(num(i)) :
            episodeReached(i, j) =>
               LET n == num(i)
                   ep == EpisodeEntry(n, j)
                   e == ep["episode_number"]
                   before == IF run = 1
                               THEN SeasonsInit[n].episodes[e].originally_available_at
                               ELSE snapshot[2][n].episodes[e].originally_available_at
               IN /\ seasons[n].episodes[e].originally_available_at =
                       IF "air_date" \in DOMAIN ep /\ EpisodeDateKey(n, e) \notin fail
                         THEN [year |-> ep["air_date"][1], month |-> ep["air_date"][2],
                               day |-> ep["air_date"][3]]
                         ELSE before
                  /\ \E k \in 1..Len(writes) : writes[k] = W("episode", n, e, "title")
                  /\ HasInt(ep, "duration_minutes") =>
                       \E k \in 1..Len(writes) : writes[k] = W("episode", n, e, "duration")
                  /\ HasStr(ep, "thumb_url") =>
                       \E k \in 1..Len(requests) : requests[k] = ep["thumb_url"]

\* the air date of the first episode did not parse: its date is the old one,
\* its duration and thumbnail are set, and the next episodes were synced
C20_Witness ==
    /\ pc = "update_done"
    /\ run = 1
    /\ EpisodeDateKey(1, 1) \in fail
    /\ seasons[1].episodes[1].originally_available_at = OldDate
    /\ seasons[1].episodes[1].duration = 2700000
    /\ "http://img/s1e1.jpg" \in DOMAIN seasons[1].episodes[1].thumbs
    /\ seasons[1].episodes[2].title = "Episode 2 - pt1"
    /\ seasons[1].episodes[2].originally_available_at = OldDate
    /\ seasons[2].episodes[1].originally_available_at =
          [year |-> 2025, month |-> 3, day |-> 9]

\* C21: asset attach: for each image slot (series poster, banner, fanart,
\* season poster, episode thumbnail), a step that fetches URL u with success
\* stores the fetched bytes in the collection of that slot under key u and
\* changes no other key of it; a step whose fetch fails leaves the collection
\* of that slot as it was.
C21_AssetAttach ==
    [][LET coll(md, ss, slot) ==
               CASE slot[1] = "series_poster" -> md.posters
                 [] slot[1] = "series_banner" -> md.banners
                 [] slot[1] = "series_fanart" -> md.art
                 [] slot[1] = "season_poster" -> ss[slot[2]].posters
                 [] OTHER -> ss[slot[2]].episodes[slot[3]].thumbs
           slot == CASE pc = "season_poster" ->
                          <<pc, slist[si]["season_number"], 0>>
                     [] pc = "episode_thumb" ->
                          <<pc, slist[si]["season_number"],
                            elist[ei]["episode_number"]>>
                     [] OTHER -> <<pc, 0, 0>>
           u == requests'[Len(requests')]
           old == coll(metadata, seasons, slot)
           new == coll(metadata', seasons', slot)
       IN (/\ pc \in {"series_poster", "series_banner", "series_fanart",
                      "season_poster", "episode_thumb"}
           /\ Len(requests') = Len(requests) + 1)
          => IF u \in fail
               THEN new = old
               ELSE /\ DOMAIN new = DOMAIN old \cup {u}
                    /\ new[u] = <<"Proxy.Media", "bytes of " \o u>>
                    /\ \A k \in DOMAIN old \ {u} : new[k] = old[k]]_vars

\* the series poster was attached next to the image the host already held,
\* the banner could not be fetched and its collection stayed empty, and a
\* season poster and an episode thumbnail were attached
C21_Witness ==
    /\ pc = "update_done"
    /\ run = 1
    /\ "http://img/banner.jpg" \in fail
    /\ metadata.banners = <<>>
    /\ DOMAIN metadata.posters = {"http://img/old.jpg", "http://img/poster.jpg"}
    /\ metadata.posters["http://img/old.jpg"] = ProxyMedia("old bytes")
    /\ metadata.posters["http://img/poster.jpg"] =
          ProxyMedia(Content("http://img/poster.jpg"))
    /\ "http://img/s1.jpg" \in DOMAIN seasons[1].posters
    /\ "http://img/s1e1.jpg" \in DOMAIN seasons[1].episodes[1].thumbs

\* C22: no retries: in one search call the search endpoint is requested at
\* most once; in one update call no address is requested twice, so that the
\* series endpoint, the seasons endpoint, the episodes endpoint of each
\* matched entry of the remote season list and the image of each slot are
\* each requested at most once, whether the request succeeds or fails.
C22_NoRetries ==
    LET count(url) == Cardinality({k \in 1..Len(requests) : requests[k] = url})
        num(i) == SeasonEntry(i)["season_number"]
    IN /\ run = 0 => Len(requests) <= 1
       /\ run > 0 =>
            /\ \A i \in 1..Len(requests) : \A j \in (i + 1)..Len(requests) :
                  requests[i] # requests[j]
            /\ count(SeriesUrl(MetadataId)) <= 1
            /\ count(SeasonsUrl(MetadataId)) <= 1
            /\ \A i \in 1..NumSeasonEntries :
                  count(EpisodesUrl(MetadataId, num(i))) <=
                     IF num(i) \in DOMAIN media THEN 1 ELSE 0

\* an update is over in which the series poster and the episode list of
\* season 1 could not be fetched: each was asked for exactly once
C22_Witness ==
    /\ pc = "update_done"
    /\ "http://img/poster.jpg" \in fail
    /\ EpisodesUrl(MetadataId, 1) \in fail
    /\ Cardinality({k \in 1..Len(requests) :
                       requests[k] = "http://img/poster.jpg"}) = 1
    /\ Cardinality({k \in 1..Len(requests) :
                       requests[k] = EpisodesUrl(MetadataId, 1)}) = 1
    /\ \E k \in 1..Len(requests) : requests[k] = EpisodesUrl(MetadataId, 2)

\* C23: season field defaults: after the sync, every matched season with
\* number n has as host title the remote title, or the label "Season n" when
\* the remote season has no title, and as host summary the remote summary,
\* or the empty text when the remote season has no summary.
C23_SeasonDefaults ==
    LET num(i) == SeasonEntry(i)["season_number"]
        label(n) == CASE n = 1 -> "Season 1"
                      [] n = 2 -> "Season 2"
                      [] n = 3 -> "Season 3"
                      [] OTHER -> "Season 4"
        seasonReached(i) ==
            /\ SeriesUrl(MetadataId) \notin fail
            /\ SeasonsUrl(MetadataId) \notin fail
            /\ seasonsShape = "list"
            /\ \A k \in 1..i : SeasonEntryKey(k) \notin fail
            /\ num(i) \in DOMAIN media
    IN pc = "update_done" =>
         \A i \in 1..NumSeasonEntries :
            seasonReached(i) =>
               LET remote == SeasonEntry(i)
                   n == num(i)
               IN /\ seasons[n].title =
                       IF "title" \in DOMAIN remote THEN remote["title"] ELSE label(n)
                  /\ seasons[n].summary =
                       IF "summary" \in DOMAIN remote THEN remote["summary"] ELSE ""

\* season 1 took the remote title and summary; season 2, whose remote entry
\* has neither, took the label and the empty summary in place of the old ones
C23_Witness ==
    /\ pc = "update_done"
    /\ seasons[1].title = "2024 Season"
    /\ seasons[1].summary = "First"
    /\ "title" \notin DOMAIN SeasonEntry(3)
    /\ "summary" \notin DOMAIN SeasonEntry(3)
    /\ SeasonsInit[2].title = "Old season"
    /\ seasons[2].title = "Season 2"
    /\ seasons[2].summary = ""

\* C24: when the fetch of the series record raises, update writes no host
\* field and issues no further request: in such an update every step leaves
\* every series, season and episode field as it was, the log of writes stays
\* empty, and the only address ever requested is the series endpoint, so the
\* seasons endpoint, the episodes endpoints and the images are never asked.
C24_SeriesFetchRaises ==
    [][SeriesUrl(MetadataId) \in fail =>
          /\ metadata' = metadata
          /\ seasons' = seasons
          /\ writes' = <<>>
          /\ requests' \in {<<>>, <<SeriesUrl(MetadataId)>>}
          /\ pc' \in {"update", "update_except", "update_done"}]_vars

\* the series fetch raised in two successive updates: one error was logged,
\* the single request is the series endpoint, and the host holds what it
\* held before the first of them
C24_Witness ==
    /\ pc = "update_done"
    /\ run = 2
    /\ SeriesUrl(MetadataId) \in fail
    /\ errors = 1
    /\ requests = <<SeriesUrl(MetadataId)>>
    /\ writes = <<>>
    /\ metadata.title = MetadataInit.title
    /\ metadata.posters = MetadataInit.posters
    /\ seasons = SeasonsInit
    /\ snapshot = <<metadata, seasons>>

\* C25: a failure inside the episode sync of one matched season (the fetch
\* of the episode list raising, or an episode entry failing to process) is
\* contained in update_episodes: it never reaches the except clause of
\* update, it is logged once, and every later matched season of the remote
\* list still gets its title and summary and has its episode list requested
\* in the same update.
C25_EpisodeFailureContained ==
    LET num(i) == SeasonEntry(i)["season_number"]
        updateFailure ==
            \/ SeriesUrl(MetadataId) \in fail
            \/ SeasonsUrl(MetadataId) \in fail
            \/ \E i \in 1..NumSeasonEntries : SeasonEntryKey(i) \in fail
        matched(i) == seasonsShape = "list" /\ num(i) \in DOMAIN media
        episodesFailed(n) ==
            \/ EpisodesUrl(MetadataId, n) \in fail
            \/ /\ EpisodesNoKey(n) \notin fail
               /\ \E j \in 1..NumEpisodeEntries(n) : EpisodeEntryKey(n, j) \in fail
        failedSeasons == {i \in 1..NumSeasonEntries : matched(i) /\ episodesFailed(num(i))}
    IN ~updateFailure =>
          /\ pc # "update_except"
          /\ pc = "update_done" =>
               /\ errors = Cardinality(failedSeasons)
               /\ \A i \in failedSeasons : \A m \in (i + 1)..NumSeasonEntries :
                    matched(m) =>
                       /\ seasons[num(m)].title = SeasonTitle(SeasonEntry(m), num(m))
                       /\ seasons[num(m)].summary = SeasonSummary(SeasonEntry(m))
                       /\ \E k \in 1..Len(requests) :
                             requests[k] = EpisodesUrl(MetadataId, num(m))

\* the second episode entry of season 1 could not be processed: the first
\* episode had been written, the later one was not, one error was logged,
\* and season 2 and its first episode were synced afterwards
C25_Witness ==
    /\ pc = "update_done"
    /\ run = 1
    /\ fail = {EpisodeEntryKey(1, 2)}
    /\ errors = 1
    /\ seasons[1].episodes[1].title = "Main Card"
    /\ seasons[1].episodes[2].title = "Old episode"
    /\ seasons[2].title = "Season 2"
    /\ seasons[2].episodes[1].title = "Prelims - pt1"
    /\ \E k \in 1..Len(requests) : requests[k] = EpisodesUrl(MetadataId, 2)

\* C26: when the series record is present but carries no year (the key
\* absent, or the year 0), update clears the host's originally_available_at
\* to None whatever it held before: from the reset on and at the end of the
\* update the field is None, never a date left by an earlier sync.
C26_NoYearClearsDate ==
    LET record == RemoteSeries(seriesShape)
        noYear == seriesShape \in {"bare", "noyear"}
        reset == \E k \in 1..Len(writes) :
                    writes[k] = W("series", 0, 0, "originally_available_at")
    IN (SeriesUrl(MetadataId) \notin fail /\ noYear) =>
          /\ IsMapping(record) /\ DOMAIN record # {}
          /\ "year" \in DOMAIN record => record["year"] = 0
          /\ reset => metadata.originally_available_at = NoDate
          /\ pc = "update_done" => reset

\* the host held a date before the update, the record has no year key, and
\* after the update the date is None while the title is the remote one
C26_Witness ==
    /\ pc = "update_done"
    /\ run = 1
    /\ MetadataInit.originally_available_at = OldDate
    /\ seriesShape = "noyear"
    /\ "year" \notin DOMAIN series
    /\ metadata.title = "Premier League"
    /\ metadata.originally_available_at = NoDate

====
